---- MODULE Spec2Model ----
(***************************************************************************)
(* Model of the Tiny Tapeout shuttle asset pipeline:                       *)
(*   scripts/render_projects.py  (download_gds, render_gds, main)          *)
(*   scripts/render_gltf.py      (main, command line)                      *)
(*   scripts/upload_gds.py       (gds_to_oas, main, command line)          *)
(*                                                                         *)
(* Two specifications:                                                     *)
(*   Spec        a bounded sequence of runs of the three drivers over one  *)
(*               persistent cache directory tree gds/{shuttle}/            *)
(*   SpecRender  render_gds applied to a bounded set of layer lists        *)
(***************************************************************************)
EXTENDS Integers, Sequences, FiniteSets, TLC

VARIABLES
    disk,       \* path -> file content, the cache files gds/{shuttle}/{macro}.gds
    nwrites,    \* path -> how often the file was opened for writing, over all runs
    firstPath,  \* <<shuttle, macro>> -> the path computed by the call that created the file
    runs,       \* number of runs started so far
    run,        \* the current process: driver, flags, manifest, position, status
    lastCall,   \* what the most recent download_gds call did
    oplog,      \* the steps the current run performed, in order
    puts,       \* the object keys put into the bucket by the current run
    req,        \* SpecRender: the arguments of the render_gds call
    view        \* SpecRender: what render_gds did

pipeVars == <<disk, nwrites, firstPath, runs, run, lastCall, oplog, puts>>
renderVars == <<req, view>>
vars == <<disk, nwrites, firstPath, runs, run, lastCall, oplog, puts, req, view>>

NONE == "none"

(***************************************************************************)
(* render_gds                                                              *)
(*                                                                         *)
(* A layer name is a tokenised string: the separators "-" and " " are      *)
(* atoms of their own and every other atom is a maximal run of other       *)
(* characters, so two names are the same string iff they are the same      *)
(* sequence. The empty string is <<>>.                                     *)
(***************************************************************************)
DASH == "-"
SPACE == " "

TECHNOLOGIES ==
    [ sky130A |-> [ boundary |-> <<"prBoundary.boundary">>,
                    hide_layers |-> { <<"areaid.standardc">>,
                                      <<"areaid.lowTapDensity">> } ],
      sg13g2  |-> [ boundary |-> <<"235/4">>,
                    hide_layers |-> { <<"235/4">> } ] ]

Pdks == {"sky130A", "sg13g2"}

\* str.split("-")[0]: everything before the first "-"
RECURSIVE SplitFirst(_)
SplitFirst(s) ==
    IF s = <<>> \/ Head(s) = DASH THEN <<>>
    ELSE <<Head(s)>> \o SplitFirst(Tail(s))

RECURSIVE LStrip(_)
LStrip(s) == IF s # <<>> /\ Head(s) = SPACE THEN LStrip(Tail(s)) ELSE s

RECURSIVE RStrip(_)
RStrip(s) ==
    IF s # <<>> /\ s[Len(s)] = SPACE THEN RStrip(SubSeq(s, 1, Len(s) - 1)) ELSE s

\* str.strip()
Strip(s) == RStrip(LStrip(s))

\* The name derived from the layer properties: for sky130A the part of
\* "name - layer/datatype" before the dash ('if "-"' is always true), for
\* every other pdk the name as it is.
DerivedName(pdk, layer) ==
    IF pdk = "sky130A" THEN Strip(SplitFirst(layer.name)) ELSE layer.name

\* f"{layer.source_layer}/{layer.source_datatype}"
SourceName(layer) ==
    << ToString(layer.source_layer) \o "/" \o ToString(layer.source_datatype) >>

\* layer_name as the visibility rules see it: an empty derived name is
\* replaced by "layer/datatype".
LayerName(pdk, layer) ==
    IF DerivedName(pdk, layer) = <<>> THEN SourceName(layer)
    ELSE DerivedName(pdk, layer)

IsBoundary(pdk, layer) == LayerName(pdk, layer) = TECHNOLOGIES[pdk].boundary

\* layer.visible with the boundary layer shown whatever the hidden-set holds
LayerVisibleBoundaryShown(pdk, layer) ==
    LET layer_name == LayerName(pdk, layer)
        hide_layers == TECHNOLOGIES[pdk].hide_layers
    IN  IF layer_name = TECHNOLOGIES[pdk].boundary
        THEN TRUE
        ELSE layer_name \notin hide_layers /\ layer_name # <<>>

\* The value assigned to layer.visible
LayerVisible(pdk, layer) ==
    LET layer_name == LayerName(pdk, layer)
        hide_layers == TECHNOLOGIES[pdk].hide_layers
    IN  IF layer_name = TECHNOLOGIES[pdk].boundary
        THEN layer_name \notin hide_layers
        ELSE layer_name \notin hide_layers /\ layer_name # <<>>

\* bbox after the loop: <<the box of the last layer that matched>>, or <<>>
\* for None
RECURSIVE BoundaryBox(_, _)
BoundaryBox(pdk, layers) ==
    IF layers = <<>> THEN <<>>
    ELSE IF IsBoundary(pdk, layers[Len(layers)]) THEN <<layers[Len(layers)].box>>
    ELSE BoundaryBox(pdk, SubSeq(layers, 1, Len(layers) - 1))

\* Box extents are counted in quarters of a micron and scales in halves, so
\* the product extent * scale is a number of eighths.
\* round(extent * scale): to the nearest integer, a tie to the even one
PixelsRound(extent, scale) ==
    LET p == extent * scale
        q == p \div 8
        r == p % 8
    IN  IF r > 4 \/ (r = 4 /\ q % 2 = 1) THEN q + 1 ELSE q

\* int(extent * scale): extents and scales are never negative, where int()
\* is the floor.
PixelSize(extent, scale) == (extent * scale) \div 8

RenderGds(pdk, layers, scale) ==
    LET bbox == BoundaryBox(pdk, layers)
        visible == [k \in 1..Len(layers) |-> LayerVisible(pdk, layers[k])]
    IN  IF bbox = <<>>
        THEN [outcome |-> "ValueError", visible |-> visible, bbox |-> bbox,
              zoom |-> <<>>, image |-> <<>>]
        ELSE [outcome |-> "ok", visible |-> visible, bbox |-> bbox,
              zoom |-> bbox,
              image |-> << [width |-> PixelSize(bbox[1].w, scale),
                            height |-> PixelSize(bbox[1].h, scale)] >>]

----
\* The inputs of SpecRender
MaxLayers == 2

LayerKinds ==
    { [name |-> <<"prBoundary.boundary", SPACE, DASH, SPACE, "235/4">>,
       source_layer |-> 235, source_datatype |-> 4],
      [name |-> <<"areaid.standardc", SPACE, DASH, SPACE, "81/4">>,
       source_layer |-> 81, source_datatype |-> 4],
      [name |-> <<"met1.drawing", SPACE, DASH, SPACE, "68/20">>,
       source_layer |-> 68, source_datatype |-> 20],
      [name |-> <<>>, source_layer |-> 235, source_datatype |-> 4],
      [name |-> <<>>, source_layer |-> 69, source_datatype |-> 20],
      [name |-> <<"235/4">>, source_layer |-> 235, source_datatype |-> 4] }

\* extents in quarters of a micron: 0.75 x 1.0, 1.0 x 2.5, 2.5 x 0.75
Boxes == { [w |-> 3, h |-> 4], [w |-> 4, h |-> 10], [w |-> 10, h |-> 3] }

\* scales in halves: 1.0, 1.5 and the command line's default 5.0
Scales == {2, 3, 10}

Layers ==
    { [name |-> k.name, source_layer |-> k.source_layer,
       source_datatype |-> k.source_datatype, box |-> b] :
      k \in LayerKinds, b \in Boxes }

LayerLists == UNION { [1..n -> Layers] : n \in 0..MaxLayers }


(***************************************************************************)
(* download_gds                                                            *)
(***************************************************************************)
\* Shuttle ids are tokenised so that str.startswith("ttihp") is computed.
TT03 == <<"tt", "03">>
TTIHP0 == <<"tt", "ihp", "0">>
Shuttles == {TT03, TTIHP0}

ROM_MACRO == "tt_um_chip_rom"
Macros == {"tt_um_example", ROM_MACRO}

\* SCRIPT_DIR / "gds" / shuttle_id / f"{macro}.gds", as its components
TargetPath(shuttle_id, macro) == <<"gds", shuttle_id, macro, ".gds">>

NOPATH == <<>>

\* Path.with_suffix
WithSuffix(path, suffix) == [path EXCEPT ![4] = suffix]

GdsPaths == { TargetPath(s, m) : s \in Shuttles, m \in Macros }
OasPaths == { WithSuffix(p, ".oas") : p \in GdsPaths }
Paths == GdsPaths \cup OasPaths

\* File contents. A layout file holds some cells of one of the layouts below.
ABSENT == [kind |-> "absent"]
EMPTY == [kind |-> "empty"]
LayoutFile(fmt, layout, cells) ==
    [kind |-> "layout", fmt |-> fmt, layout |-> layout, cells |-> cells]

\* Cell names are tokenised like layer names, with "_" an atom of its own.
US == "_"
ROM_CELL == <<"tt", US, "um", US, "chip", US, "rom">>

\* What the server can serve: a project's own layout, and full-chip layouts
\* with one ROM cell (chipA), with none (chipB: "xtt_um_chip_rom" and
\* "tt_um_chip_rom_old" do not match) and with two (chipC).
LayoutCells ==
    [ project |-> << [name |-> <<"tt", US, "um", US, "example">>, children |-> {}] >>,
      chipA |-> << [name |-> <<"tt", US, "top">>, children |-> {2, 4}],
                   [name |-> ROM_CELL, children |-> {3}],
                   [name |-> <<"rom", US, "row">>, children |-> {}],
                   [name |-> <<"tt", US, "um", US, "example">>, children |-> {}] >>,
      chipB |-> << [name |-> <<"tt", US, "top">>, children |-> {2, 3}],
                   [name |-> <<"xtt", US, "um", US, "chip", US, "rom">>, children |-> {}],
                   [name |-> ROM_CELL \o <<US, "old">>, children |-> {}] >>,
      chipC |-> << [name |-> <<"tt", US, "top">>, children |-> {2, 4}],
                   [name |-> <<"tt03">> \o <<US>> \o ROM_CELL, children |-> {3}],
                   [name |-> <<"rom", US, "row">>, children |-> {}],
                   [name |-> ROM_CELL, children |-> {}] >> ]

Chips == {"chipA", "chipB", "chipC"}

AllCells(layout) == 1..Len(LayoutCells[layout])

\* str.endswith
EndsWith(s, suffix) ==
    /\ Len(s) >= Len(suffix)
    /\ SubSeq(s, Len(s) - Len(suffix) + 1, Len(s)) = suffix

\* cell.name == "tt_um_chip_rom" or cell.name.endswith("_tt_um_chip_rom")
IsRomCell(name) == name = ROM_CELL \/ EndsWith(name, <<US>> \o ROM_CELL)

\* rom_cell after the loop over layout.each_cell(): <<the last match>>; the
\* name stays unbound, <<>>, when no cell matches.
RomCell(layout) ==
    LET hits == { c \in AllCells(layout) : IsRomCell(LayoutCells[layout][c].name) }
    IN  IF hits = {} THEN <<>> ELSE << CHOOSE c \in hits : \A o \in hits : o <= c >>

\* SaveLayoutOptions.add_cell: the cell and, implicitly, all its children
RECURSIVE Subtree(_, _)
Subtree(layout, cells) ==
    LET more == cells \cup UNION { LayoutCells[layout][c].children : c \in cells }
    IN  IF more = cells THEN cells ELSE Subtree(layout, more)

\* Variants of the existence test: one that is satisfied by any file of the
\* shuttle's directory, one that never finds the file
ExistsInDir(d, path) == \E q \in DOMAIN d : q[2] = path[2] /\ d[q].kind # "absent"

ExistsNever(d, path) == FALSE

\* target_path.exists()

Exists(d, path) == d[path].kind # "absent"

INDEX_URL == [kind |-> "index"]

\* A lookup that takes every shuttle id as listed
FindShuttleAny(index, shuttle_id) == TRUE

\* next((shuttle for shuttle in shuttles if shuttle["id"] == shuttle_id), None)

FindShuttle(index, shuttle_id) == shuttle_id \in index

\* The url the layout is fetched from: the per-project template with the macro
\* filled in, or the full-chip url for the ROM macro.
GdsUrl(shuttle_id, macro) ==
    IF macro = ROM_MACRO
    THEN [kind |-> "gds_url", shuttle |-> shuttle_id]
    ELSE [kind |-> "project_gds_url_template", shuttle |-> shuttle_id,
          macro |-> macro]

\* What the environment decides during one call: whether the index request
\* succeeds and the shuttles index.json lists, whether urlopen(gds_url)
\* succeeds, whether the body then arrives whole (response.read(), or
\* gz.read() for a url ending in .gz, returns instead of raising), and the
\* full-chip layout the server holds.
Envs ==
    [ index_ok : BOOLEAN, index : SUBSET Shuttles,
      connect_ok : BOOLEAN, body_ok : BOOLEAN, chip : Chips ]

\* download_gds(shuttle_id, macro) on disk d: the new disk, the path returned
\* (NOPATH when the call does not return), how the call ended, the index it
\* got (<<>> when it got none) and the requests and file writes it made, in
\* order.
DownloadGds(d, shuttle_id, macro, env) ==
    LET target_path == TargetPath(shuttle_id, macro)
        gds_url == GdsUrl(shuttle_id, macro)
        is_rom == macro = ROM_MACRO
        served == IF is_rom THEN env.chip ELSE "project"
        raw == LayoutFile("gds", served, AllCells(served))
        base == [disk |-> d, ret |-> NOPATH, outcome |-> "crash", hit |-> FALSE,
                 index |-> <<>>, requests |-> <<>>, writes |-> <<>>]
    IN  IF Exists(d, target_path)
        THEN [base EXCEPT !.ret = target_path, !.outcome = "ok", !.hit = TRUE]
        ELSE IF ~env.index_ok
        THEN [base EXCEPT !.requests = <<INDEX_URL>>]
        ELSE IF ~FindShuttle(env.index, shuttle_id)
        THEN [base EXCEPT !.requests = <<INDEX_URL>>, !.index = <<env.index>>,
                          !.outcome = "exit1"]
        ELSE IF ~env.connect_ok
        THEN [base EXCEPT !.requests = <<INDEX_URL, gds_url>>, !.index = <<env.index>>]
        ELSE IF ~env.body_ok
        THEN \* open(target_path, "wb") created the file, then read() raised
             \* before f.write() was called
             [base EXCEPT !.requests = <<INDEX_URL, gds_url>>, !.index = <<env.index>>,
                          !.disk = [d EXCEPT ![target_path] = EMPTY],
                          !.writes = <<target_path>>]
        ELSE IF ~is_rom
        THEN [base EXCEPT !.requests = <<INDEX_URL, gds_url>>, !.index = <<env.index>>,
                          !.disk = [d EXCEPT ![target_path] = raw],
                          !.writes = <<target_path>>,
                          !.ret = target_path, !.outcome = "ok"]
        ELSE IF RomCell(served) = <<>>
        THEN \* "if not rom_cell" reads an unbound name: UnboundLocalError
             [base EXCEPT !.requests = <<INDEX_URL, gds_url>>, !.index = <<env.index>>,
                          !.disk = [d EXCEPT ![target_path] = raw],
                          !.writes = <<target_path>>]
        ELSE [base EXCEPT !.requests = <<INDEX_URL, gds_url>>, !.index = <<env.index>>,
                          !.disk = [d EXCEPT ![target_path] =
                              LayoutFile("gds", served,
                                         Subtree(served, {RomCell(served)[1]}))],
                          !.writes = <<target_path, target_path>>,
                          !.ret = target_path, !.outcome = "ok"]

(***************************************************************************)
(* The three drivers                                                       *)
(***************************************************************************)
MaxProjects == 2
MaxRuns == 2

Drivers == {"render_projects", "render_gltf", "upload_gds"}

\* json.load(req)["projects"]: the macros of the shuttle, in manifest order;
\* a macro names one project, so no manifest lists it twice.
Manifests ==
    { m \in UNION { [1..n -> Macros] : n \in 0..MaxProjects } :
        \A j, k \in 1..Len(m) : m[j] = m[k] => j = k }

\* str.startswith
StartsWith(s, prefix) ==
    Len(s) >= Len(prefix) /\ SubSeq(s, 1, Len(prefix)) = prefix

\* pdk = "sg13g2" if shuttle_id.startswith("ttihp") else "sky130A"
Pdk(shuttle_id) ==
    IF StartsWith(shuttle_id, <<"tt", "ihp">>) THEN "sg13g2" ELSE "sky130A"

\* Whether the command line of the driver knows -u/--upload; argparse exits
\* with status 2 on an argument it does not know.
AcceptsUpload(driver) == driver = "render_gltf"

\* A render_gltf that makes its bucket whether or not --upload is given
UploadBucketIgnoresFlag(driver, flag) == driver \in {"render_gltf", "upload_gds"}

\* Whether main() gets a bucket: render_projects has none, render_gltf makes
\* one under --upload only, upload_gds always makes one.

UploadBucket(driver, flag) ==
    CASE driver = "render_projects" -> FALSE
      [] driver = "render_gltf" -> flag
      [] driver = "upload_gds" -> TRUE

\* Object keys f"{shuttle_id}/{macro}/{macro}.{ext}" the driver puts, in order
UploadKeys(driver, shuttle_id, macro) ==
    CASE driver = "render_gltf" -> << <<shuttle_id, macro, macro, ".gds.gltf">> >>
      [] driver = "upload_gds" -> << <<shuttle_id, macro, macro, ".gds">>,
                                     <<shuttle_id, macro, macro, ".oas">> >>
      [] OTHER -> <<>>

IDLE ==
    [driver |-> NONE, flag |-> FALSE, upload_bucket |-> FALSE, scale |-> 10,
     shuttle |-> <<>>,
     manifest |-> <<>>, i |-> 0, pc |-> NONE, status |-> "idle"]

NOCALL ==
    [shuttle |-> <<>>, macro |-> NONE, ret |-> NOPATH, outcome |-> NONE,
     hit |-> FALSE, index |-> <<>>, requests |-> <<>>, writes |-> <<>>]

\* The end of one pass of "for project in project_list"
Advance(r) ==
    IF r.i = Len(r.manifest)
    THEN [r EXCEPT !.pc = NONE, !.status = "done"]
    ELSE [r EXCEPT !.i = r.i + 1, !.pc = "fetch"]

\* A loop that catches the failure of a project and goes on with the next
FailAndContinue(r, outcome) == Advance(r)

\* An exception (or SystemExit) nobody catches ends the process.

Fail(r, outcome) ==
    [r EXCEPT !.status = IF outcome = "exit1" THEN "exit1" ELSE "crashed"]

Logged(step, ok) == Append(oplog, [i |-> run.i, step |-> step, ok |-> ok])

\* How often each path occurs in a sequence of writes
Count(seq, path) == Cardinality({ k \in 1..Len(seq) : seq[k] = path })

NOREQ == [pdk |-> NONE]
NOVIEW == [outcome |-> NONE]

Init ==
    /\ disk = [p \in Paths |-> ABSENT]
    /\ nwrites = [p \in Paths |-> 0]
    /\ firstPath = [k \in Shuttles \X Macros |-> NOPATH]
    /\ runs = 0
    /\ run = IDLE
    /\ lastCall = NOCALL
    /\ oplog = <<>>
    /\ puts = {}
    /\ req = NOREQ
    /\ view = NOVIEW

\* The command line and the head of main(): parse the arguments, make the
\* bucket, fetch the project list.
StartRun(driver, flag, shuttle_id, manifest_ok, manifest) ==
    /\ run.status # "running"
    /\ runs < MaxRuns
    /\ runs' = runs + 1
    /\ lastCall' = NOCALL
    /\ oplog' = <<>>
    /\ puts' = {}
    /\ LET r == [IDLE EXCEPT !.driver = driver, !.flag = flag, !.shuttle = shuttle_id]
       IN  run' =
             IF flag /\ ~AcceptsUpload(driver)
             THEN [r EXCEPT !.status = "usage"]
             ELSE IF ~manifest_ok
             THEN [r EXCEPT !.upload_bucket = UploadBucket(driver, flag),
                            !.status = "crashed"]
             ELSE Advance([r EXCEPT !.upload_bucket = UploadBucket(driver, flag),
                                    !.manifest = manifest, !.status = "running"])
    /\ UNCHANGED <<disk, nwrites, firstPath, req, view>>

\* gds_file = download_gds(shuttle_id, macro)
Fetch(env) ==
    /\ run.status = "running" /\ run.pc = "fetch"
    /\ LET macro == run.manifest[run.i]
           r == DownloadGds(disk, run.shuttle, macro, env)
       IN  /\ disk' = r.disk
           /\ nwrites' = [p \in Paths |-> nwrites[p] + Count(r.writes, p)]
           /\ firstPath' =
                IF r.writes # <<>>
                THEN [firstPath EXCEPT ![<<run.shuttle, macro>>] = r.writes[1]]
                ELSE firstPath
           /\ lastCall' = [shuttle |-> run.shuttle, macro |-> macro, ret |-> r.ret,
                           outcome |-> r.outcome, hit |-> r.hit, index |-> r.index,
                           requests |-> r.requests, writes |-> r.writes]
           /\ oplog' = Logged("fetch", r.outcome = "ok")
           /\ run' = IF r.outcome = "ok" THEN [run EXCEPT !.pc = "convert"]
                     ELSE Fail(run, r.outcome)
    /\ UNCHANGED <<runs, puts, req, view>>

\* Whether the layout engine can load the file
Readable(d, path) == path # NOPATH /\ d[path].kind = "layout"

AfterConvert(r) == IF r.upload_bucket THEN [r EXCEPT !.pc = "upload"] ELSE Advance(r)

\* render_gds(gds_file, png, pdk, scale) of render_projects.main; the layers
\* are those of the loaded layout and style sheet.
Render(layers, scale) ==
    /\ run.status = "running" /\ run.pc = "convert"
    /\ run.driver = "render_projects"
    /\ LET ok == /\ Readable(disk, lastCall.ret)
                 /\ RenderGds(Pdk(run.shuttle), layers, scale).outcome = "ok"
       IN  /\ oplog' = Logged("convert", ok)
           /\ run' = IF ok THEN AfterConvert(run) ELSE Fail(run, "crash")
    /\ UNCHANGED <<disk, nwrites, firstPath, runs, lastCall, puts, req, view>>

\* gds2gltf(gds_file, gltf_file, pdk_name=pdk) of render_gltf.main, an
\* external converter that may fail on any file and fails on one it cannot read.
ConvertGltf(converts) ==
    /\ run.status = "running" /\ run.pc = "convert"
    /\ run.driver = "render_gltf"
    /\ LET ok == Readable(disk, lastCall.ret) /\ converts
       IN  /\ oplog' = Logged("convert", ok)
           /\ run' = IF ok THEN AfterConvert(run) ELSE Fail(run, "crash")
    /\ UNCHANGED <<disk, nwrites, firstPath, runs, lastCall, puts, req, view>>

\* gds_to_oas(gds_file, gds_file.with_suffix(".oas")) of upload_gds.main
GdsToOas ==
    /\ run.status = "running" /\ run.pc = "convert"
    /\ run.driver = "upload_gds"
    /\ LET gds_file == lastCall.ret
           oas_file == WithSuffix(gds_file, ".oas")
           ok == Readable(disk, gds_file)
       IN  /\ oplog' = Logged("convert", ok)
           /\ disk' = IF ok
                      THEN [disk EXCEPT ![oas_file] =
                              [disk[gds_file] EXCEPT !.fmt = "oas"]]
                      ELSE disk
           /\ nwrites' = IF ok THEN [nwrites EXCEPT ![oas_file] = @ + 1] ELSE nwrites
           /\ run' = IF ok THEN AfterConvert(run) ELSE Fail(run, "crash")
    /\ UNCHANGED <<firstPath, runs, lastCall, puts, req, view>>

\* "if upload_bucket:" put_object for each key in turn; done of them succeed.
Upload(done) ==
    /\ run.status = "running" /\ run.pc = "upload"
    /\ LET keys == UploadKeys(run.driver, run.shuttle, run.manifest[run.i])
           ok == done = Len(keys)
       IN  /\ done \in 0..Len(keys)
           /\ puts' = puts \cup { keys[k] : k \in 1..done }
           /\ oplog' = Logged("upload", ok)
           /\ run' = IF ok THEN Advance(run) ELSE Fail(run, "crash")
    /\ UNCHANGED <<disk, nwrites, firstPath, runs, lastCall, req, view>>

\* The layer lists a render of the pipeline may meet: no layer or one
PipelineLayerLists ==
    { ll \in LayerLists : Len(ll) <= 1 /\ \A k \in 1..Len(ll) : ll[k].box.w = 4 }

Next ==
    \/ \E driver \in Drivers, flag \in BOOLEAN, shuttle_id \in Shuttles,
          manifest_ok \in BOOLEAN, manifest \in Manifests :
          StartRun(driver, flag, shuttle_id, manifest_ok, manifest)
    \/ \E env \in Envs : Fetch(env)
    \/ \E layers \in PipelineLayerLists : Render(layers, run.scale)
    \/ \E converts \in BOOLEAN : ConvertGltf(converts)
    \/ GdsToOas
    \/ \E done \in 0..2 : Upload(done)

Spec == Init /\ [][Next]_vars

----
\* render_gds on its own: Init draws the arguments, RenderCall applies it.
InitRender ==
    /\ disk = [p \in Paths |-> ABSENT]
    /\ nwrites = [p \in Paths |-> 0]
    /\ firstPath = [k \in Shuttles \X Macros |-> NOPATH]
    /\ runs = 0
    /\ run = IDLE
    /\ lastCall = NOCALL
    /\ oplog = <<>>
    /\ puts = {}
    /\ req \in [pdk : Pdks, layers : LayerLists, scale : Scales]
    /\ view = NOVIEW

RenderCall ==
    /\ view = NOVIEW
    /\ view' = RenderGds(req.pdk, req.layers, req.scale)
    /\ UNCHANGED <<pipeVars, req>>

NextRender == RenderCall

SpecRender == InitRender /\ [][NextRender]_vars

(***************************************************************************)
(* Properties of download_gds and the drivers, checked under Spec          *)
(***************************************************************************)
\* C1: a call of download_gds that finds its cache file makes no request
\* (neither for index.json nor for a layout), writes no file, and returns
\* the path that the call which created the file computed.
C1_CacheHitNoNetwork ==
    lastCall.hit =>
        /\ lastCall.outcome = "ok"
        /\ lastCall.requests = <<>>
        /\ lastCall.writes = <<>>
        /\ lastCall.ret # NOPATH
        /\ lastCall.ret = firstPath[<<lastCall.shuttle, lastCall.macro>>]

\* A later run found the file an earlier run had downloaded.
C1_Witness ==
    /\ lastCall.hit
    /\ runs = 2
    /\ disk[lastCall.ret].kind = "layout"

\* A file that holds exactly one ROM cell and that cell's transitive children
IsPrunedRom(file) ==
    /\ file.kind = "layout"
    /\ \E c \in file.cells :
          /\ IsRomCell(LayoutCells[file.layout][c].name)
          /\ file.cells = Subtree(file.layout, {c})

\* C2: whenever download_gds returns a path for the ROM macro, by download
\* or by cache hit, the layout at that path holds only the matched ROM cell
\* and its transitive children. (Stated for the files that are layouts, so
\* that an empty file left by a broken download does not decide it.)
C2_RomFileIsPruned ==
    ( /\ lastCall.outcome = "ok"
      /\ lastCall.macro = ROM_MACRO
      /\ disk[lastCall.ret].kind = "layout" )
    => IsPrunedRom(disk[lastCall.ret])

\* C3: when the shuttle is not in the index that download_gds fetched, the
\* call ends in sys.exit(1), the process ends with it, and no layout was
\* requested and no file written.
C3_UnknownShuttleExits ==
    ( lastCall.index # <<>> /\ lastCall.shuttle \notin lastCall.index[1] ) =>
        /\ lastCall.outcome = "exit1"
        /\ run.status = "exit1"
        /\ lastCall.requests = <<INDEX_URL>>
        /\ lastCall.writes = <<>>
        /\ lastCall.ret = NOPATH

C3_Witness ==
    /\ lastCall.index # <<>>
    /\ lastCall.shuttle \notin lastCall.index[1]
    /\ lastCall.index[1] # {}
    /\ run.status = "exit1"

\* C4 as claimed: in every driver, a run started without -u/--upload puts no
\* object into the bucket.
C4_NoUploadWithoutFlag == ~run.flag => puts = {}

\* C4 as the code has it: render_projects never puts an object, render_gltf
\* puts none without -u/--upload, and a driver that does not know the flag
\* (render_projects, upload_gds) stops at the command line when given it.
C4_UploadOnlyWhereEnabled ==
    /\ run.driver = "render_projects" => puts = {}
    /\ (run.driver = "render_gltf" /\ ~run.flag) => puts = {}
    /\ (run.flag /\ run.driver # "render_gltf") =>
          run.status = "usage" /\ puts = {} /\ oplog = <<>>

\* A render_gltf run without the flag that converted its projects to the end
C4_Witness ==
    /\ run.driver = "render_gltf"
    /\ ~run.flag
    /\ run.status = "done"
    /\ Len(oplog) = 4

\* C8: the steps of a run follow the manifest, one project at a time, fetch
\* then convert then upload, and a failed step is the last step of the run:
\* nothing is fetched, converted or uploaded after it, for any project.
StepsOf(r) == IF r.upload_bucket THEN <<"fetch", "convert", "upload">>
              ELSE <<"fetch", "convert">>

C8_FailureHaltsRun ==
    LET steps == StepsOf(run)
        \* the position in the run of the k-th logged step
        Pos(e) == (e.i - 1) * Len(steps)
                  + (CHOOSE n \in 1..Len(steps) : steps[n] = e.step)
    IN  /\ \A k \in 1..Len(oplog) :
              /\ oplog[k].step \in { steps[n] : n \in 1..Len(steps) }
              /\ Pos(oplog[k]) = k
              /\ oplog[k].i \in 1..Len(run.manifest)
              /\ k < Len(oplog) => oplog[k].ok
        /\ run.status \in {"crashed", "exit1"} =>
              \A k \in 1..Len(oplog) : oplog[k].i <= run.i
        /\ (run.status \in {"crashed", "exit1"} /\ oplog # <<>>) =>
              ~oplog[Len(oplog)].ok
        /\ run.status = "done" =>
              /\ Len(oplog) = Len(run.manifest) * Len(steps)
              /\ \A k \in 1..Len(oplog) : oplog[k].ok

\* The first of two projects failed and the run is over.
C8_Witness ==
    /\ run.status = "crashed"
    /\ Len(run.manifest) = 2
    /\ run.i = 1
    /\ oplog # <<>>
    /\ ~oplog[Len(oplog)].ok

\* C9 as claimed: every file of the cache directory is written at most once
\* over all runs.
C9_EveryFileWrittenOnce == \A p \in Paths : nwrites[p] <= 1

\* C9 as the code has it: the .gds file of an ordinary macro is written at
\* most once over all runs and that of the ROM macro at most twice, and all
\* writes of a .gds file are made by the one call that creates it.
C9_GdsWrittenByCreatingCall ==
    /\ \A s \in Shuttles, m \in Macros :
          nwrites[TargetPath(s, m)] <= IF m = ROM_MACRO THEN 2 ELSE 1
    /\ lastCall.writes # <<>> =>
          /\ \A k \in 1..Len(lastCall.writes) :
                lastCall.writes[k] = TargetPath(lastCall.shuttle, lastCall.macro)
          /\ nwrites[lastCall.writes[1]] = Len(lastCall.writes)

\* The ROM file was written twice and a later run found it in the cache.
C9_Witness ==
    /\ lastCall.hit
    /\ lastCall.macro = ROM_MACRO
    /\ nwrites[lastCall.ret] = 2
    /\ runs = 2

\* C10: the path a cache hit returns refers to a complete asset, never to an
\* empty or partial file.
C10_CacheHitIsComplete ==
    lastCall.hit => disk[lastCall.ret].kind = "layout"

(***************************************************************************)
(* Properties of render_gds, checked under SpecRender                      *)
(***************************************************************************)
Called == view # NOVIEW

BoundaryLayers == { k \in 1..Len(req.layers) : IsBoundary(req.pdk, req.layers[k]) }

\* C5 as claimed: the boundary layer supplies the crop rectangle and is
\* always set visible.
C5_BoundaryAlwaysShown ==
    Called => \A k \in BoundaryLayers :
        /\ view.zoom # <<>>
        /\ view.visible[k]

\* C5 as the code has it: the last layer named as the boundary supplies the
\* crop rectangle; a boundary layer is set visible under sky130A and hidden
\* under sg13g2, whose hidden-set holds the boundary layer.
C5_BoundaryCropsShownUnlessHidden ==
    Called => \A k \in BoundaryLayers :
        /\ view.outcome = "ok"
        /\ (\A j \in BoundaryLayers : j <= k) => view.zoom = <<req.layers[k].box>>
        /\ view.visible[k] = (req.pdk = "sky130A")

\* Two boundary layers with different boxes under sg13g2
C5_Witness ==
    /\ Called
    /\ req.pdk = "sg13g2"
    /\ BoundaryLayers = {1, 2}
    /\ req.layers[1].box # req.layers[2].box
    /\ ~view.visible[2]

\* C6: a layer that is not the boundary is set visible iff its derived name
\* is not empty and not in the hidden-set; layers with an empty derived name
\* (fill layers) are hidden.
C6_VisibleIffNamedAndShown ==
    Called => \A k \in (1..Len(req.layers)) \ BoundaryLayers :
        view.visible[k] =
            ( /\ DerivedName(req.pdk, req.layers[k]) # <<>>
              /\ DerivedName(req.pdk, req.layers[k])
                    \notin TECHNOLOGIES[req.pdk].hide_layers )

\* C7 as claimed: the image is round(width * scale) by round(height * scale).
C7_ImageSizeRounded ==
    (Called /\ Cardinality(BoundaryLayers) = 1) =>
        \A k \in BoundaryLayers :
            view.image = << [width |-> PixelsRound(req.layers[k].box.w, req.scale),
                             height |-> PixelsRound(req.layers[k].box.h, req.scale)] >>

\* C7 as the code has it: the image is int(width * scale) by
\* int(height * scale), the products cut off at the decimal point. (Extents
\* in quarters and scales in halves: the product counts eighths.)
C7_ImageSizeTruncated ==
    (Called /\ Cardinality(BoundaryLayers) = 1) =>
        \A k \in BoundaryLayers :
            /\ view.outcome = "ok"
            /\ Len(view.image) = 1
            /\ view.image[1].width * 8 <= req.layers[k].box.w * req.scale
            /\ req.layers[k].box.w * req.scale < (view.image[1].width + 1) * 8
            /\ view.image[1].height * 8 <= req.layers[k].box.h * req.scale
            /\ req.layers[k].box.h * req.scale < (view.image[1].height + 1) * 8

\* One boundary layer, 2.5 wide at scale 1.5: 3.75, which int() makes 3
C7_Witness ==
    /\ Called
    /\ Cardinality(BoundaryLayers) = 1
    /\ \E k \in BoundaryLayers : req.layers[k].box.w * req.scale = 30
    /\ view.image[1].width = 3

====
